---- MODULE Spec2Model ----
(***************************************************************************)
(* Three-vessel water pouring puzzle solver (water.cpp, utils.h).          *)
(*                                                                         *)
(* VesselsState is a triple of 16-bit unsigned levels; the solver is a     *)
(* level-synchronous breadth-first search over an append-only history.     *)
(* Vessel indices 0..2 of the source are 1..3 here; history indices stay   *)
(* 0-based (entry i is m_history[i + 1]), so INVALID_IDX is -1 as in the   *)
(* source.                                                                 *)
(***************************************************************************)
EXTENDS Integers, Sequences, FiniteSets

VARIABLES
    pc,          \* control position of main / solve_water
    caller,      \* "none", "main" (solve_water called by main) or "user"
    m_volumes,   \* WaterPouringPuzzleSolver::m_volumes
    m_history,   \* WaterPouringPuzzleSolver::m_history: Seq of [first, second]
    m_visited,   \* WaterPouringPuzzleSolver::m_visited
    target,      \* argument of the running / last solve_water call
    step,        \* solve_water local
    old_ptr,     \* solve_water local
    next_ptr,    \* solve_water local
    ptr,         \* solve_water local (outer for loop)
    succ,        \* the range of the inner for loop: old_state.next_states(m_volumes)
    it,          \* position of the inner for loop in succ (1-based)
    result,      \* return value of the last solve_water call
    solution,    \* show(): the vector of history indices of the printed path
    show_ok,     \* show(): no assertion failed and no at() threw
    hint,        \* main: what the GCD line printed
    exit_code,   \* main: process exit status ("EX_OK", "EX_UNAVAILABLE")
    u_state,     \* unit harness: the VesselsState under test
    u_out,       \* unit harness: the sequence of states the call returned
    u_op,        \* unit harness: the call made
    last_call    \* history variable: the kind of the engine's last finished
                 \* solve_water call: "none", "zero" (target 0) or "search"

vars == <<pc, caller, m_volumes, m_history, m_visited, target, step, old_ptr,
          next_ptr, ptr, succ, it, result, solution, show_ok, hint, exit_code,
          u_state, u_out, u_op, last_call>>

solver_locals == <<step, old_ptr, next_ptr, ptr, succ, it>>
unit_vars == <<u_state, u_out, u_op>>
main_vars == <<hint, exit_code>>

(***************************************************************************)
(* Bounds of the model.                                                    *)
(***************************************************************************)
MaxCap == 3
MaxTarget == 4

Caps == 0..MaxCap
Targets == 0..MaxTarget
Vessels == 1..3

\* the capacities tried: every triple within the bound, and the instance of
\* the usage text ("water 3 5 8 4")
UsageExample == <<3, 5, 8>>
CapTriples == (Caps \X Caps \X Caps) \cup {UsageExample}

(***************************************************************************)
(* Program constants.                                                      *)
(***************************************************************************)
WaterBits == 16
INVALID_IDX == -1

WaterMod == 2 ^ WaterBits

\* uint16_t arithmetic: the result of the int operation converted back to water
Sub16(a, b) == (a - b + WaterMod) % WaterMod
Add16(a, b) == (a + b) % WaterMod

ZeroState == <<0, 0, 0>>

(***************************************************************************)
(* utils.h                                                                 *)
(***************************************************************************)
RECURSIVE gcd(_, _)
gcd(x, y) ==
    IF y = 0 THEN x ELSE gcd(y, x % y)

\* gcd of three with the variadic recursion dropping its last argument
gcd3_DropsLast(x, y, z) ==
    gcd(x, y)

gcd3(x, y, z) ==
    gcd(gcd(x, y), z)

(***************************************************************************)
(* VesselsState                                                            *)
(***************************************************************************)
\* transfer with the free space taken to be the whole capacity of dst
transfer_FreeIsCapacity(self, src, dst, volumes) ==
    LET dst_free == volumes[dst]
    IN  IF self[src] <= dst_free
        THEN [[self EXCEPT ![dst] = Add16(self[dst], self[src])] EXCEPT ![src] = 0]
        ELSE [[self EXCEPT ![dst] = Add16(self[dst], dst_free)]
                    EXCEPT ![src] = Sub16(self[src], dst_free)]

\* transfer whose else branch empties src instead of taking dst_free from it
transfer_ElseEmptiesSrc(self, src, dst, volumes) ==
    LET dst_free == Sub16(volumes[dst], self[dst])
    IN  IF self[src] <= dst_free
        THEN [[self EXCEPT ![dst] = Add16(self[dst], self[src])] EXCEPT ![src] = 0]
        ELSE [[self EXCEPT ![dst] = Add16(self[dst], dst_free)]
                    EXCEPT ![src] = 0]

transfer(self, src, dst, volumes) ==
    LET dst_free == Sub16(volumes[dst], self[dst])
    IN  IF self[src] <= dst_free
        THEN [[self EXCEPT ![dst] = Add16(self[dst], self[src])] EXCEPT ![src] = 0]
        ELSE [[self EXCEPT ![dst] = Add16(self[dst], dst_free)]
                    EXCEPT ![src] = Sub16(self[src], dst_free)]

\* the Fill branch of next_states for vessel from
FillMoves(self, from, volumes) ==
    IF self[from] = 0
    THEN << [self EXCEPT ![from] = volumes[from]] >>
    ELSE << >>

\* the Drain branch of next_states for vessel from
DrainMoves(self, from) ==
    IF self[from] # 0
    THEN << [self EXCEPT ![from] = 0] >>
    ELSE << >>

\* the "to" loop without the test that dst has room
TransferMove_NoRoomTest(self, from, to, volumes) ==
    IF from # to /\ self[from] > 0
    THEN << transfer(self, from, to, volumes) >>
    ELSE << >>

\* one iteration of the inner "to" loop of next_states
TransferMove(self, from, to, volumes) ==
    IF from # to /\ self[to] < volumes[to] /\ self[from] > 0
    THEN << transfer(self, from, to, volumes) >>
    ELSE << >>

\* one iteration of the outer "from" loop of next_states
FromMoves(self, from, volumes) ==
    FillMoves(self, from, volumes) \o DrainMoves(self, from)
        \o TransferMove(self, from, 1, volumes)
        \o TransferMove(self, from, 2, volumes)
        \o TransferMove(self, from, 3, volumes)

next_states(self, volumes) ==
    FromMoves(self, 1, volumes) \o FromMoves(self, 2, volumes)
        \o FromMoves(self, 3, volumes)

contains(self, volume) ==
    self[1] = volume \/ self[2] = volume \/ self[3] = volume

(***************************************************************************)
(* WaterPouringPuzzleSolver::show: the backward walk over the history.     *)
(* at() on an index outside the history throws; a failed assert aborts.    *)
(***************************************************************************)
RECURSIVE ShowLoop(_, _, _, _, _)
ShowLoop(h, pos, history_idx, sol, ok) ==
    IF pos = -1
    THEN [solution |-> sol, ok |-> ok]
    ELSE IF history_idx < 0 \/ history_idx >= Len(h)
         THEN [solution |-> sol, ok |-> FALSE]
         ELSE LET back == h[history_idx + 1].second
              IN  ShowLoop(h, pos - 1, back,
                           [sol EXCEPT ![pos + 1] = history_idx],
                           ok /\ (IF pos = 0 THEN back = -1 ELSE back >= 0))

show(h, steps) ==
    IF steps <= 0
    THEN [solution |-> << >>, ok |-> TRUE]
    ELSE ShowLoop(h, steps, Len(h) - 1, [i \in 1..(steps + 1) |-> 0], TRUE)

\* the states show prints, in order
ShownPath(h, sol) ==
    [i \in 1..Len(sol) |-> h[sol[i] + 1].first]

(***************************************************************************)
(* Initial state: nothing constructed, main not entered.                   *)
(***************************************************************************)
NoLocals ==
    /\ step = 0 /\ old_ptr = 0 /\ next_ptr = 0 /\ ptr = 0
    /\ succ = << >> /\ it = 0

UnitIdle ==
    /\ u_state = ZeroState /\ u_out = << >> /\ u_op = << >>

Init ==
    /\ pc = "start"
    /\ caller = "none"
    /\ m_volumes = ZeroState
    /\ m_history = << >>
    /\ m_visited = {}
    /\ target = 0
    /\ NoLocals
    /\ result = 0
    /\ solution = << >>
    /\ show_ok = TRUE
    /\ hint = "none"
    /\ exit_code = "none"
    /\ UnitIdle
    /\ last_call = "none"

(***************************************************************************)
(* main                                                                    *)
(***************************************************************************)
Min2(a, b) == IF a <= b THEN a ELSE b
Max2(a, b) == IF a <= b THEN b ELSE a

\* main, argument parsing: four valid numbers; std::sort(&numbers[1],
\* &numbers[3]) orders the first two only.
MainParse(n1, n2, n3, n4) ==
    /\ pc = "start"
    /\ m_volumes' = <<Min2(n1, n2), Max2(n1, n2), n3>>
    /\ target' = n4
    /\ caller' = "main"
    /\ pc' = "main_check"
    /\ UNCHANGED <<m_history, m_visited, solver_locals, result, solution,
                   show_ok, main_vars, unit_vars, last_call>>

\* main, "Quick check": target % volume_gcd.  With volume_gcd = 0 the
\* remainder is undefined behaviour: the build either traps (SIGFPE) or
\* carries on with an arbitrary value.
MainCheck ==
    /\ pc = "main_check"
    /\ LET volume_gcd == gcd3(m_volumes[1], m_volumes[2], m_volumes[3])
       IN  \/ /\ volume_gcd # 0
              /\ hint' = IF target % volume_gcd # 0 THEN "unsolvable" ELSE "solvable"
              /\ pc' = "main_solve"
           \/ /\ volume_gcd = 0
              /\ pc' = "fault"
              /\ hint' = hint
           \/ /\ volume_gcd = 0
              /\ hint' \in {"unsolvable", "solvable"}
              /\ pc' = "main_solve"
    /\ UNCHANGED <<caller, m_volumes, m_history, m_visited, target,
                   solver_locals, result, solution, show_ok, exit_code,
                   unit_vars, last_call>>

\* main, after solve_water returned
MainExit ==
    /\ pc = "returned"
    /\ caller = "main"
    /\ exit_code' = IF result < 0 THEN "EX_UNAVAILABLE" ELSE "EX_OK"
    /\ pc' = "exit"
    /\ UNCHANGED <<caller, m_volumes, m_history, m_visited, target,
                   solver_locals, result, solution, show_ok, hint, unit_vars, last_call>>

(***************************************************************************)
(* WaterPouringPuzzleSolver                                                *)
(***************************************************************************)
\* the constructor, used directly by a caller other than main
Construct(volumes) ==
    /\ pc = "start"
    /\ m_volumes' = volumes
    /\ caller' = "user"
    /\ pc' = "idle"
    /\ UNCHANGED <<m_history, m_visited, target, solver_locals, result,
                   solution, show_ok, main_vars, unit_vars, last_call>>

\* solve_water without the target == 0 shortcut
SolveCall_NoShortcut(t) ==
    /\ \/ pc = "idle"
       \/ pc = "main_solve" /\ t = target
    /\ target' = t
    /\ solution' = << >>
    /\ show_ok' = TRUE
    /\ m_visited' = {ZeroState, m_volumes}
    /\ step' = 0
    /\ old_ptr' = 0
    /\ m_history' = << [first |-> ZeroState, second |-> INVALID_IDX] >>
    /\ result' = 0
    /\ pc' = "while"
    /\ UNCHANGED <<next_ptr, ptr, succ, it>>
    /\ UNCHANGED <<caller, m_volumes, main_vars, unit_vars, last_call>>

\* solve_water without m_visited.insert(m_volumes)
SolveCall_NoFullMark(t) ==
    /\ \/ pc = "idle"
       \/ pc = "main_solve" /\ t = target
    /\ target' = t
    /\ solution' = << >>
    /\ show_ok' = TRUE
    /\ IF t = 0
       THEN /\ result' = 0
            /\ pc' = "returned"
            /\ UNCHANGED <<m_history, m_visited, solver_locals>>
       ELSE /\ m_visited' = {ZeroState}
            /\ step' = 0
            /\ old_ptr' = 0
            /\ m_history' = << [first |-> ZeroState, second |-> INVALID_IDX] >>
            /\ result' = 0
            /\ pc' = "while"
            /\ UNCHANGED <<next_ptr, ptr, succ, it>>
    /\ UNCHANGED <<caller, m_volumes, main_vars, unit_vars, last_call>>

\* solve_water rejecting up front a target above every capacity
SolveCall_RejectsLarge(t) ==
    /\ \/ pc = "idle"
       \/ pc = "main_solve" /\ t = target
    /\ target' = t
    /\ solution' = << >>
    /\ show_ok' = TRUE
    /\ IF t = 0 \/ \A v \in Vessels : t > m_volumes[v]
       THEN /\ result' = IF t = 0 THEN 0 ELSE -1
            /\ pc' = "returned"
            /\ UNCHANGED <<m_history, m_visited, solver_locals>>
       ELSE /\ m_visited' = {ZeroState, m_volumes}
            /\ step' = 0
            /\ old_ptr' = 0
            /\ m_history' = << [first |-> ZeroState, second |-> INVALID_IDX] >>
            /\ result' = 0
            /\ pc' = "while"
            /\ UNCHANGED <<next_ptr, ptr, succ, it>>
    /\ UNCHANGED <<caller, m_volumes, main_vars, unit_vars, last_call>>

\* solve_water without the call of init()
SolveCall_NoInit(t) ==
    /\ \/ pc = "idle"
       \/ pc = "main_solve" /\ t = target
    /\ target' = t
    /\ solution' = << >>
    /\ show_ok' = TRUE
    /\ IF t = 0
       THEN /\ result' = 0
            /\ pc' = "returned"
            /\ UNCHANGED <<m_history, m_visited, solver_locals>>
       ELSE /\ m_visited' = m_visited \cup {ZeroState, m_volumes}
            /\ step' = 0
            /\ old_ptr' = 0
            /\ m_history' = Append(m_history,
                               [first |-> ZeroState, second |-> INVALID_IDX])
            /\ result' = 0
            /\ pc' = "while"
            /\ UNCHANGED <<next_ptr, ptr, succ, it>>
    /\ UNCHANGED <<caller, m_volumes, main_vars, unit_vars, last_call>>

\* solve_water up to the while loop: the target == 0 shortcut, init(), the
\* two pre-visited states and the initial history entry
SolveCall(t) ==
    /\ \/ pc = "idle"
       \/ pc = "main_solve" /\ t = target
    /\ target' = t
    /\ solution' = << >>
    /\ show_ok' = TRUE
    /\ IF t = 0
       THEN /\ result' = 0
            /\ pc' = "returned"
            /\ UNCHANGED <<m_history, m_visited, solver_locals>>
       ELSE /\ m_visited' = {ZeroState, m_volumes}
            /\ step' = 0
            /\ old_ptr' = 0
            /\ m_history' = << [first |-> ZeroState, second |-> INVALID_IDX] >>
            /\ result' = 0
            /\ pc' = "while"
            /\ UNCHANGED <<next_ptr, ptr, succ, it>>
    /\ UNCHANGED <<caller, m_volumes, main_vars, unit_vars, last_call>>

\* while (old_ptr != m_history.size()) { ++step; next_ptr = size; ptr = old_ptr
WhileTest ==
    /\ pc = "while"
    /\ IF old_ptr # Len(m_history)
       THEN /\ step' = step + 1
            /\ next_ptr' = Len(m_history)
            /\ ptr' = old_ptr
            /\ pc' = "for"
            /\ UNCHANGED result
       ELSE /\ result' = -1
            /\ pc' = "returned"
            /\ UNCHANGED <<step, next_ptr, ptr>>
    /\ UNCHANGED <<caller, m_volumes, m_history, m_visited, target, old_ptr,
                   succ, it, solution, show_ok, main_vars, unit_vars, last_call>>

\* ForTest with the loop bound read from the live history size instead of
\* next_ptr
ForTest_LiveBound ==
    /\ pc = "for"
    /\ IF ptr < Len(m_history)
       THEN /\ succ' = next_states(m_history[ptr + 1].first, m_volumes)
            /\ it' = 1
            /\ pc' = "inner"
            /\ UNCHANGED old_ptr
       ELSE /\ old_ptr' = next_ptr
            /\ pc' = "while"
            /\ UNCHANGED <<succ, it>>
    /\ UNCHANGED <<caller, m_volumes, m_history, m_visited, target, step,
                   next_ptr, ptr, result, solution, show_ok, main_vars,
                   unit_vars, last_call>>

\* for (ptr < next_ptr): old_state = m_history.at(ptr).first and its
\* next_states; past the end: old_ptr = next_ptr
ForTest ==
    /\ pc = "for"
    /\ IF ptr < next_ptr
       THEN /\ succ' = next_states(m_history[ptr + 1].first, m_volumes)
            /\ it' = 1
            /\ pc' = "inner"
            /\ UNCHANGED old_ptr
       ELSE /\ old_ptr' = next_ptr
            /\ pc' = "while"
            /\ UNCHANGED <<succ, it>>
    /\ UNCHANGED <<caller, m_volumes, m_history, m_visited, target, step,
                   next_ptr, ptr, result, solution, show_ok, main_vars,
                   unit_vars, last_call>>

\* Inner without the visited test
Inner_NoVisitedTest ==
    /\ pc = "inner"
    /\ IF it > Len(succ)
       THEN /\ ptr' = ptr + 1
            /\ pc' = "for"
            /\ UNCHANGED <<m_history, m_visited, it, result, solution, show_ok>>
       ELSE LET new_state == succ[it]
            IN  /\ m_visited' = m_visited \cup {new_state}
                /\ m_history' = Append(m_history,
                                   [first |-> new_state, second |-> ptr])
                /\ IF contains(new_state, target)
                   THEN LET shown == show(m_history', step)
                        IN  /\ solution' = shown.solution
                            /\ show_ok' = shown.ok
                            /\ result' = step
                            /\ pc' = "returned"
                            /\ UNCHANGED <<it, ptr>>
                   ELSE /\ it' = it + 1
                        /\ UNCHANGED <<pc, ptr, result, solution, show_ok>>
    /\ UNCHANGED <<caller, m_volumes, target, step, old_ptr, next_ptr, succ,
                   main_vars, unit_vars, last_call>>

\* Inner recording the round's first entry, not the expanded entry, as the
\* predecessor
Inner_FrontPred ==
    /\ pc = "inner"
    /\ IF it > Len(succ)
       THEN /\ ptr' = ptr + 1
            /\ pc' = "for"
            /\ UNCHANGED <<m_history, m_visited, it, result, solution, show_ok>>
       ELSE LET new_state == succ[it]
            IN  IF new_state \in m_visited
                THEN /\ it' = it + 1
                     /\ UNCHANGED <<pc, ptr, m_history, m_visited, result,
                                    solution, show_ok>>
                ELSE /\ m_visited' = m_visited \cup {new_state}
                     /\ m_history' = Append(m_history,
                                        [first |-> new_state, second |-> old_ptr])
                     /\ IF contains(new_state, target)
                        THEN LET shown == show(m_history', step)
                             IN  /\ solution' = shown.solution
                                 /\ show_ok' = shown.ok
                                 /\ result' = step
                                 /\ pc' = "returned"
                                 /\ UNCHANGED <<it, ptr>>
                        ELSE /\ it' = it + 1
                             /\ UNCHANGED <<pc, ptr, result, solution, show_ok>>
    /\ UNCHANGED <<caller, m_volumes, target, step, old_ptr, next_ptr, succ,
                   main_vars, unit_vars, last_call>>

\* one iteration of for (new_state : old_state.next_states(m_volumes))
Inner ==
    /\ pc = "inner"
    /\ IF it > Len(succ)
       THEN /\ ptr' = ptr + 1
            /\ pc' = "for"
            /\ UNCHANGED <<m_history, m_visited, it, result, solution, show_ok>>
       ELSE LET new_state == succ[it]
            IN  IF new_state \in m_visited
                THEN /\ it' = it + 1
                     /\ UNCHANGED <<pc, ptr, m_history, m_visited, result,
                                    solution, show_ok>>
                ELSE /\ m_visited' = m_visited \cup {new_state}
                     /\ m_history' = Append(m_history,
                                        [first |-> new_state, second |-> ptr])
                     /\ IF contains(new_state, target)
                        THEN LET shown == show(m_history', step)
                             IN  /\ solution' = shown.solution
                                 /\ show_ok' = shown.ok
                                 /\ result' = step
                                 /\ pc' = "returned"
                                 /\ UNCHANGED <<it, ptr>>
                        ELSE /\ it' = it + 1
                             /\ UNCHANGED <<pc, ptr, result, solution, show_ok>>
    /\ UNCHANGED <<caller, m_volumes, target, step, old_ptr, next_ptr, succ,
                   main_vars, unit_vars, last_call>>

\* the call returns to a caller other than main: the locals are gone
Return ==
    /\ pc = "returned"
    /\ caller = "user"
    /\ pc' = "idle"
    /\ step' = 0 /\ old_ptr' = 0 /\ next_ptr' = 0 /\ ptr' = 0
    /\ succ' = << >> /\ it' = 0
    /\ last_call' = IF target = 0 THEN "zero" ELSE "search"
    /\ UNCHANGED <<caller, m_volumes, m_history, m_visited, target, result,
                   solution, show_ok, main_vars, unit_vars>>

SolveStep == WhileTest \/ ForTest \/ Inner

Next ==
    \/ \E n \in CapTriples, n4 \in Targets : MainParse(n[1], n[2], n[3], n4)
    \/ MainCheck
    \/ MainExit
    \/ \E v \in CapTriples : Construct(v)
    \/ \E t \in Targets : SolveCall(t)
    \/ WhileTest
    \/ ForTest
    \/ Inner
    \/ Return

Spec == Init /\ [][Next]_vars

\* solve_water is sequential code: once entered, it keeps running
FairSpec == Spec /\ WF_vars(SolveStep)

(***************************************************************************)
(* solve_water run in one go on a newly constructed engine (m_history and  *)
(* m_visited empty): the outcome as [steps, path], path being the states   *)
(* show prints.                                                            *)
(***************************************************************************)
RECURSIVE FreshInner(_, _, _, _, _, _)
FreshInner(h, visited, at, range, i, volume) ==
    IF i > Len(range)
    THEN [h |-> h, visited |-> visited, hit |-> FALSE]
    ELSE IF range[i] \in visited
         THEN FreshInner(h, visited, at, range, i + 1, volume)
         ELSE LET h2 == Append(h, [first |-> range[i], second |-> at])
                  visited2 == visited \cup {range[i]}
              IN  IF contains(range[i], volume)
                  THEN [h |-> h2, visited |-> visited2, hit |-> TRUE]
                  ELSE FreshInner(h2, visited2, at, range, i + 1, volume)

RECURSIVE FreshFor(_, _, _, _, _, _)
FreshFor(h, visited, at, end, volumes, volume) ==
    IF at >= end
    THEN [h |-> h, visited |-> visited, hit |-> FALSE]
    ELSE LET r == FreshInner(h, visited, at,
                             next_states(h[at + 1].first, volumes), 1, volume)
         IN  IF r.hit
             THEN r
             ELSE FreshFor(r.h, r.visited, at + 1, end, volumes, volume)

RECURSIVE FreshWhile(_, _, _, _, _, _)
FreshWhile(h, visited, steps, old, volumes, volume) ==
    IF old = Len(h)
    THEN [steps |-> -1, path |-> << >>]
    ELSE LET r == FreshFor(h, visited, old, Len(h), volumes, volume)
         IN  IF r.hit
             THEN [steps |-> steps + 1,
                   path |-> ShownPath(r.h, show(r.h, steps + 1).solution)]
             ELSE FreshWhile(r.h, r.visited, steps + 1, Len(h), volumes, volume)

FreshSolve(volumes, volume) ==
    IF volume = 0
    THEN [steps |-> 0, path |-> << >>]
    ELSE FreshWhile(<< [first |-> ZeroState, second |-> INVALID_IDX] >>,
                    {ZeroState, volumes}, 0, 0, volumes, volume)

(***************************************************************************)
(* Unit harness for the pure functions of VesselsState: any capacities,    *)
(* any state within them, one call at a time.                              *)
(***************************************************************************)
StatesWithin(volumes) ==
    (0..volumes[1]) \X (0..volumes[2]) \X (0..volumes[3])

InitU ==
    /\ pc = "unit"
    /\ caller = "none"
    /\ m_volumes \in CapTriples
    /\ m_history = << >>
    /\ m_visited = {}
    /\ target = 0
    /\ NoLocals
    /\ result = 0
    /\ solution = << >>
    /\ show_ok = TRUE
    /\ hint = "none"
    /\ exit_code = "none"
    /\ u_state \in StatesWithin(m_volumes)
    /\ u_out = << >>
    /\ u_op = << >>
    /\ last_call = "none"

UTransfer(src, dst) ==
    /\ pc = "unit"
    /\ src # dst
    /\ u_out' = << transfer(u_state, src, dst, m_volumes) >>
    /\ u_op' = <<"transfer", src, dst>>
    /\ UNCHANGED <<pc, caller, m_volumes, m_history, m_visited, target,
                   solver_locals, result, solution, show_ok, main_vars, u_state, last_call>>

UNextStates ==
    /\ pc = "unit"
    /\ u_out' = next_states(u_state, m_volumes)
    /\ u_op' = <<"next_states">>
    /\ UNCHANGED <<pc, caller, m_volumes, m_history, m_visited, target,
                   solver_locals, result, solution, show_ok, main_vars, u_state, last_call>>

NextU ==
    \/ \E src, dst \in Vessels : UTransfer(src, dst)
    \/ UNextStates

SpecU == InitU /\ [][NextU]_vars

(***************************************************************************)
(* Reference definitions for the properties: the transition graph that     *)
(* next_states spans, explored as sets, with nothing pre-visited.          *)
(***************************************************************************)
SeqRange(q) == {q[i] : i \in DOMAIN q}

Moves(s, volumes) == SeqRange(next_states(s, volumes))

\* the length of a shortest move sequence from the states of frontier (at
\* distance n) to a state holding volume; -1 when there is none
RECURSIVE LevelDist(_, _, _, _, _)
LevelDist(frontier, seen, n, volumes, volume) ==
    IF \E s \in frontier : contains(s, volume)
    THEN n
    ELSE LET fresh == UNION {Moves(s, volumes) : s \in frontier} \ seen
         IN  IF fresh = {}
             THEN -1
             ELSE LevelDist(fresh, seen \cup fresh, n + 1, volumes, volume)

ShortestDist(volumes, volume) ==
    LevelDist({ZeroState}, {ZeroState}, 0, volumes, volume)

\* every state some move sequence reaches from the states of seen
RECURSIVE Closure(_, _)
Closure(seen, volumes) ==
    LET more == seen \cup UNION {Moves(s, volumes) : s \in seen}
    IN  IF more = seen THEN seen ELSE Closure(more, volumes)

Reachable(volumes) == Closure({ZeroState}, volumes)

Returned == pc = "returned"
Running == pc \in {"while", "for", "inner"}

(***************************************************************************)
(* C1: whenever solve_water(target), target >= 1, returns a step count     *)
(* s >= 1, s is the length of a shortest sequence of Fill/Drain/Pour moves *)
(* from (0,0,0) to a state in which some vessel holds exactly target.      *)
(***************************************************************************)
C1_StepsAreShortest ==
    (Returned /\ target >= 1 /\ result >= 1)
        => result = ShortestDist(m_volumes, target)

C1_Witness ==
    /\ Returned
    /\ target >= 1
    /\ result = 6
    /\ caller = "user"

(***************************************************************************)
(* C2: whenever solve_water returns -1, every reachable state has been     *)
(* visited and no state reachable from (0,0,0) holds target in a vessel.   *)
(***************************************************************************)
C2_UnsolvableMeansUnreachable ==
    (Returned /\ result = -1)
        => /\ Reachable(m_volumes) \subseteq m_visited
           /\ \A s \in Reachable(m_volumes) : ~contains(s, target)

(***************************************************************************)
(* C3: on a solved outcome with s >= 1 steps the path show rebuilds from   *)
(* the history has s + 1 states, starts at (0,0,0), ends in a state that   *)
(* holds target, and each state is among the next_states of the one before *)
(* it.                                                                     *)
(***************************************************************************)
C3_ShownPathIsValid ==
    (Returned /\ result >= 1)
        => /\ show_ok
           /\ Len(solution) = result + 1
           /\ \A i \in DOMAIN solution : solution[i] \in 0..(Len(m_history) - 1)
           /\ LET path == ShownPath(m_history, solution)
              IN  /\ path[1] = ZeroState
                  /\ contains(path[Len(path)], target)
                  /\ \A i \in 1..(Len(path) - 1) :
                        path[i + 1] \in Moves(path[i], m_volumes)

C3_Witness ==
    /\ Returned
    /\ result >= 4
    /\ Len(solution) = result + 1
    /\ solution[Len(solution)] = Len(m_history) - 1

(***************************************************************************)
(* C4: if target is not a multiple of gcd(cap1, cap2, cap3), solve_water   *)
(* returns -1; every level of every state of the history is a multiple of  *)
(* that gcd.                                                               *)
(***************************************************************************)
MultipleOf(n, g) == \E k \in 0..n : n = k * g

VolumeGcd == gcd3(m_volumes[1], m_volumes[2], m_volumes[3])

C4_GcdUnsolvable ==
    /\ (Returned /\ ~MultipleOf(target, VolumeGcd)) => result = -1
    /\ \A i \in DOMAIN m_history : \A v \in Vessels :
          MultipleOf(m_history[i].first[v], VolumeGcd)

C4_Witness ==
    /\ Returned
    /\ VolumeGcd = 2
    /\ target = 3
    /\ result = -1
    /\ Len(m_history) > 2

(***************************************************************************)
(* C5: solve_water(0) returns 0 at once, as a solved outcome: no round of  *)
(* the search runs and the history and the visited set are left as they    *)
(* were.                                                                   *)
(***************************************************************************)
CallSite == pc \in {"idle", "main_solve"}

C5_ZeroTargetReturnsAtOnce ==
    [][(CallSite /\ pc' # pc /\ target' = 0)
          => /\ pc' = "returned"
             /\ result' = 0
             /\ m_history' = m_history
             /\ m_visited' = m_visited
             /\ step' = step]_vars

C5_Witness ==
    /\ Returned
    /\ target = 0
    /\ result = 0
    /\ m_volumes = <<1, 2, 3>>
    /\ m_history = << >>
    /\ m_visited = {}

(***************************************************************************)
(* C6: main run with capacities 0 0 0 and target 0 ends "solved with 0     *)
(* steps": the GCD pre-check neither faults nor prevents that outcome.     *)
(***************************************************************************)
C6_AllZeroRunSolved ==
    (caller = "main" /\ m_volumes = ZeroState /\ target = 0
        /\ pc \in {"fault", "exit"})
        => /\ pc = "exit"
           /\ result = 0
           /\ exit_code = "EX_OK"

(***************************************************************************)
(* C7: one invocation of solve_water terminates, and the history never     *)
(* holds more than (cap1 + 1) * (cap2 + 1) * (cap3 + 1) entries.           *)
(***************************************************************************)
HistoryBound ==
    Len(m_history) <= (m_volumes[1] + 1) * (m_volumes[2] + 1) * (m_volumes[3] + 1)

C7_Terminates ==
    /\ []HistoryBound
    /\ Running ~> Returned

C7_Witness ==
    /\ Returned
    /\ result = -1
    /\ step >= 4
    /\ Len(m_history) >= 10

(***************************************************************************)
(* C8: in every state of the history, and in every state next_states       *)
(* returns for one (so in every state reachable from (0,0,0)), each level  *)
(* is within 0 .. capacity: the 16-bit subtraction in transfer never wraps.*)
(***************************************************************************)
WithinBounds(s, volumes) ==
    \A v \in Vessels : 0 <= s[v] /\ s[v] <= volumes[v]

C8_LevelsWithinCapacity ==
    /\ \A i \in DOMAIN m_history : WithinBounds(m_history[i].first, m_volumes)
    /\ \A i \in DOMAIN succ : WithinBounds(succ[i], m_volumes)
    /\ Returned => \A s \in Reachable(m_volumes) : WithinBounds(s, m_volumes)

C8_Witness ==
    /\ pc = "inner"
    /\ \E i \in DOMAIN succ : succ[i] = m_volumes
    /\ \E i \in DOMAIN succ : succ[i][1] = 1 /\ succ[i][2] = 3
    /\ m_volumes[1] = 2 /\ m_volumes[2] = 3

(***************************************************************************)
(* C9: for a state within bounds and src # dst, transfer(src, dst) moves   *)
(* min(level[src], capacities[dst] - level[dst]) units from src to dst:    *)
(* afterwards src is 0 or dst is full, the third vessel is unchanged and   *)
(* the sum of the levels is what it was.                                   *)
(***************************************************************************)
Sum3(s) == s[1] + s[2] + s[3]

C9_TransferMovesMin ==
    (Len(u_op) = 3 /\ u_op[1] = "transfer")
        => LET src == u_op[2]
               dst == u_op[3]
               out == u_out[1]
               moved == Min2(u_state[src], m_volumes[dst] - u_state[dst])
           IN  /\ out[src] = u_state[src] - moved
               /\ out[dst] = u_state[dst] + moved
               /\ out[src] = 0 \/ out[dst] = m_volumes[dst]
               /\ \A v \in Vessels \ {src, dst} : out[v] = u_state[v]
               /\ Sum3(out) = Sum3(u_state)

C9_Witness ==
    /\ Len(u_op) = 3 /\ u_op[1] = "transfer"
    /\ u_state[u_op[2]] > m_volumes[u_op[3]] - u_state[u_op[3]]
    /\ u_state[u_op[3]] > 0
    /\ u_out[1][u_op[2]] > 0
    /\ u_out[1][u_op[3]] = m_volumes[u_op[3]]

(***************************************************************************)
(* C10: next_states(s) is exactly the multiset of Fill(v) for the empty    *)
(* vessels v, Drain(v) for the non-empty ones and Pour(src -> dst) for the *)
(* ordered pairs with s[src] > 0 and s[dst] < capacities[dst]; duplicates  *)
(* stay, and there are at most 12 elements.                                *)
(***************************************************************************)
\* the moves the statement lists, each tagged, with the state it yields
ListedMoves(s, volumes) ==
    {<<"fill", v, v, [s EXCEPT ![v] = volumes[v]]>> : v \in {w \in Vessels : s[w] = 0}}
    \cup {<<"drain", v, v, [s EXCEPT ![v] = 0]>> : v \in {w \in Vessels : s[w] # 0}}
    \cup {<<"pour", p[1], p[2],
            LET moved == Min2(s[p[1]], volumes[p[2]] - s[p[2]])
            IN  [[s EXCEPT ![p[1]] = s[p[1]] - moved] EXCEPT ![p[2]] = s[p[2]] + moved]>> :
          p \in {q \in Vessels \X Vessels :
                    q[1] # q[2] /\ s[q[1]] > 0 /\ s[q[2]] < volumes[q[2]]}}

Occurrences(q, x) == Cardinality({i \in DOMAIN q : q[i] = x})

C10_NextStatesExact ==
    u_op = <<"next_states">>
        => LET listed == ListedMoves(u_state, m_volumes)
           IN  /\ \A x \in SeqRange(u_out) \cup {m[4] : m \in listed} :
                     Occurrences(u_out, x) = Cardinality({m \in listed : m[4] = x})
               /\ Len(u_out) = Cardinality(listed)
               /\ Len(u_out) <= 12

C10_Witness ==
    /\ u_op = <<"next_states">>
    /\ Len(u_out) = 9
    /\ \E i \in DOMAIN u_out : \E v \in Vessels :
          u_state[v] < m_volumes[v] /\ u_out[i][v] = m_volumes[v]

(***************************************************************************)
(* C11: every invocation of solve_water, whatever its target (target 0     *)
(* included), resets the history and the visited set: once it has started  *)
(* or returned, nothing an earlier invocation left is still there.         *)
(***************************************************************************)
RootEntry == [first |-> ZeroState, second |-> INVALID_IDX]

Invoked == CallSite /\ pc' # pc

C11_EveryCallResets ==
    [][Invoked => /\ m_history' \in {<< >>, <<RootEntry>>}
                  /\ m_visited' \subseteq {ZeroState, m_volumes}]_vars

\* as amended: an invocation with target >= 1 resets both; an invocation
\* with target 0 leaves both as the earlier invocation left them
C11_SearchCallResets ==
    [][Invoked => IF target' = 0
                  THEN m_history' = m_history /\ m_visited' = m_visited
                  ELSE /\ m_history' = <<RootEntry>>
                       /\ m_visited' = {ZeroState, m_volumes}]_vars

C11_Witness ==
    /\ pc = "while"
    /\ step = 0
    /\ last_call = "search"
    /\ m_history = <<RootEntry>>
    /\ m_visited = {ZeroState, m_volumes}
    /\ m_volumes = UsageExample

(***************************************************************************)
(* C12: a target above max(cap1, cap2, cap3) is not rejected up front:     *)
(* solve_water runs the search until a round discovers no new state and    *)
(* then returns -1.                                                        *)
(***************************************************************************)
HistoryStates == {m_history[i].first : i \in DOMAIN m_history}

AboveEveryCapacity(volume) == \A v \in Vessels : volume > m_volumes[v]

C12_LargeTargetExhausts ==
    (Returned /\ AboveEveryCapacity(target))
        => /\ result = -1
           /\ step >= 1
           /\ m_history[1] = RootEntry
           /\ old_ptr = Len(m_history)
           /\ next_ptr = Len(m_history)
           /\ Reachable(m_volumes) \subseteq HistoryStates \cup {m_volumes}

C12_Witness ==
    /\ Returned
    /\ m_volumes = <<1, 2, 3>>
    /\ target = 4
    /\ result = -1
    /\ step >= 3
    /\ Len(m_history) > 10

(***************************************************************************)
(* C13: with capacities [3,5,8] and target 4, solve_water reports the      *)
(* puzzle solved in exactly 6 steps.                                       *)
(***************************************************************************)
C13_UsageExampleSixSteps ==
    (Returned /\ m_volumes = UsageExample /\ target = 4) => result = 6

C13_Witness ==
    /\ pc = "exit"
    /\ caller = "main"
    /\ m_volumes = UsageExample
    /\ target = 4
    /\ hint = "solvable"
    /\ result = 6
    /\ exit_code = "EX_OK"
    /\ contains(m_history[Len(m_history)].first, 4)

(***************************************************************************)
(* C14: on an engine used for any sequence of solve_water invocations, the *)
(* outcome of each invocation (solved with its step count and path, or     *)
(* unsolvable) is the outcome a newly constructed engine with the same     *)
(* capacities gives for that target, whatever was solved before, a         *)
(* preceding solve_water(0) included.                                      *)
(***************************************************************************)
Outcome == [steps |-> result, path |-> ShownPath(m_history, solution)]

C14_OutcomeAsOnNewEngine ==
    Returned => Outcome = FreshSolve(m_volumes, target)

C14_Witness ==
    /\ Returned
    /\ last_call = "zero"
    /\ Len(m_history) > 1
    /\ target >= 1
    /\ result >= 2
    /\ Len(Outcome.path) = result + 1

(***************************************************************************)
(* C15: at every point of a solve_water run the states stored in the       *)
(* history are pairwise distinct and each is in the visited set, so every  *)
(* distinct state is appended once and expanded at most once.              *)
(***************************************************************************)
HistoryDistinct ==
    /\ \A i, j \in DOMAIN m_history :
          i # j => m_history[i].first # m_history[j].first
    /\ HistoryStates \subseteq m_visited

\* within a run the entry being expanded never moves back; a new expansion
\* (ForTest computing next_states) is of an entry past every earlier one
ExpandsForward ==
    (Running /\ pc' \in {"while", "for", "inner"})
        => /\ ptr' >= ptr
           /\ (pc = "inner" /\ pc' = "for") => ptr' = ptr + 1

C15_HistoryDistinctAndVisited ==
    /\ []HistoryDistinct
    /\ [][ExpandsForward]_vars

C15_Witness ==
    /\ pc = "inner"
    /\ it <= Len(succ)
    /\ succ[it] \in HistoryStates
    /\ succ[it] # ZeroState
    /\ Len(m_history) >= 8
    /\ ptr >= 3

(***************************************************************************)
(* C16: for capacities other than (0,0,0) and target >= 1, the all-full    *)
(* state is marked visited before the first round and is never appended to *)
(* the history: it is never expanded, never tested against target and      *)
(* never on a returned path.                                               *)
(***************************************************************************)
C16_AllFullNeverInHistory ==
    ((Running \/ Returned) /\ target >= 1 /\ m_volumes # ZeroState)
        => /\ m_volumes \in m_visited
           /\ m_volumes \notin HistoryStates
           /\ \A i \in DOMAIN solution :
                 m_history[solution[i] + 1].first # m_volumes

C16_Witness ==
    /\ pc = "inner"
    /\ target >= 1
    /\ it <= Len(succ)
    /\ succ[it] = m_volumes
    /\ \A v \in Vessels : m_volumes[v] > 0
    /\ m_volumes \notin HistoryStates

(***************************************************************************)
(* C17: whenever solve_water calls show(target, step), the backward walk   *)
(* from the last history entry visits exactly step + 1 entries before the  *)
(* sentinel -1, so the assertions of show never fail: every entry appended *)
(* during round k has a predecessor chain of exactly k links.              *)
(***************************************************************************)
\* the number of predecessor links from entry idx (0-based) back to the
\* entry whose predecessor is the sentinel
RECURSIVE ChainLength(_, _)
ChainLength(h, idx) ==
    IF h[idx + 1].second = INVALID_IDX
    THEN 0
    ELSE 1 + ChainLength(h, h[idx + 1].second)

C17_ShowWalkMatchesStep ==
    /\ show_ok
    /\ pc \in {"for", "inner"}
          => \A i \in 0..(Len(m_history) - 1) :
                /\ i >= next_ptr => ChainLength(m_history, i) = step
                /\ (old_ptr <= i /\ i < next_ptr)
                      => ChainLength(m_history, i) = step - 1
                /\ i < old_ptr => ChainLength(m_history, i) < step - 1
    /\ (Returned /\ result >= 1)
          => /\ ChainLength(m_history, Len(m_history) - 1) = result
             /\ Len(solution) = result + 1
             /\ solution[result + 1] = Len(m_history) - 1
             /\ solution[1] = 0
             /\ m_history[solution[1] + 1].second = INVALID_IDX
             /\ \A k \in 1..result :
                   m_history[solution[k + 1] + 1].second = solution[k]

C17_Witness ==
    /\ Returned
    /\ show_ok
    /\ result = 4
    /\ Len(solution) = 5
    /\ ChainLength(m_history, Len(m_history) - 1) = 4
    /\ \E i \in DOMAIN m_history : ChainLength(m_history, i - 1) = 3

(***************************************************************************)
(* C18: at every point of a solve_water run the history is an append-only  *)
(* tree rooted at entry 0: entry 0 is (0,0,0) with predecessor -1 and is   *)
(* the only entry with predecessor -1; every other entry i has a           *)
(* predecessor p, 0 <= p < i, whose state has the entry's state among its  *)
(* next_states; entries are never changed or removed during the run.       *)
(***************************************************************************)
HistoryIsTree ==
    m_history # << >>
        => /\ m_history[1] = RootEntry
           /\ \A i \in 2..Len(m_history) :
                 LET p == m_history[i].second
                 IN  /\ p # INVALID_IDX
                     /\ 0 <= p /\ p < i - 1
                     /\ m_history[i].first \in Moves(m_history[p + 1].first, m_volumes)

AppendOnly ==
    Running => /\ Len(m_history') >= Len(m_history)
               /\ Len(m_history') <= Len(m_history) + 1
               /\ \A i \in DOMAIN m_history : m_history'[i] = m_history[i]

C18_HistoryAppendOnlyTree ==
    /\ []HistoryIsTree
    /\ [][AppendOnly]_vars

C18_Witness ==
    /\ pc = "inner"
    /\ Len(m_history) >= 12
    /\ \E i, j \in 2..Len(m_history) :
          /\ i # j
          /\ m_history[i].second = m_history[j].second
          /\ m_history[i].second >= 3
    /\ \E i \in 2..Len(m_history) : m_history[i].second = 0

(***************************************************************************)
(* C19: if capacities[v] = 0, vessel v holds 0 in every reachable state    *)
(* and no move involving v yields a new state: next_states never emits     *)
(* Drain(v), Pour(v -> x) or Pour(x -> v), and the Fill(v) it emits is the *)
(* state it was applied to, so it never adds a history entry.              *)
(***************************************************************************)
ZeroCapacityInert(v) ==
    /\ \A s \in HistoryStates : s[v] = 0
    /\ \A i \in DOMAIN succ : succ[i][v] = 0
    /\ Returned => \A s \in Reachable(m_volumes) : s[v] = 0
    /\ \A s \in HistoryStates :
          /\ FillMoves(s, v, m_volumes) = <<s>>
          /\ DrainMoves(s, v) = << >>
          /\ \A x \in Vessels :
                /\ TransferMove(s, v, x, m_volumes) = << >>
                /\ TransferMove(s, x, v, m_volumes) = << >>
    /\ \A i \in 2..Len(m_history) :
          m_history[i].first # m_history[m_history[i].second + 1].first

C19_ZeroCapacityVesselInert ==
    /\ \A v \in Vessels : m_volumes[v] = 0 => ZeroCapacityInert(v)
    /\ (pc = "inner" /\ m_history # << >>)
          => LET old_state == m_history[ptr + 1].first
             IN  Occurrences(succ, old_state)
                    = Cardinality({v \in Vessels : m_volumes[v] = 0})

C19_Witness ==
    /\ pc = "inner"
    /\ m_volumes[2] = 0
    /\ m_volumes[1] > 0
    /\ m_volumes[3] > 0
    /\ it <= Len(succ)
    /\ succ[it] = m_history[ptr + 1].first
    /\ succ[it][1] > 0
    /\ succ[it][3] > 0

====
